---- MODULE Spec2Model ----
(***************************************************************************)
(* EMI installment lifecycle and penalty ledger of AsBrand-Backend.        *)
(*                                                                         *)
(* Time is counted in ticks since 1 January of EpochYear, 00:00 local      *)
(* time.  A day has TicksPerDay ticks, so a Date value keeps a time of day *)
(* as the JavaScript Date objects of the source do.                        *)
(***************************************************************************)
EXTENDS Integers, Sequences, FiniteSets, TLC

VARIABLES
    now,      \* the clock: what `new Date()` returns
    plans,    \* EmiPlan collection
    app,      \* EmiApplication collection (one document, or NoApp)
    ledger,   \* PenaltyLedger collection, in insertion order
    sink,     \* Notification collection: number of records saved per template type
    hist,     \* history: batch passes executed this tick / this day
    inflight  \* an overdue pass between its find() and its last save()

vars == <<now, plans, app, ledger, sink, hist, inflight>>

----------------------------------------------------------------------------
(* Bounds of the model *)

\* the times of day (in ticks) at which a request or a batch run can arrive
TimesOfDay == {0, 1}
TicksPerDay == Cardinality(TimesOfDay)

\* the clock of the lifecycle specifications starts here: [year, month0, day]
StartDate == [y |-> 2024, m |-> 3, d |-> 30]
EpochYear == StartDate.y

\* number of days the clock of the lifecycle specifications runs
MaxDays == 11

\* apply requests arrive during this many days from the start of the clock
ApplyDays == 1

\* records the Notification collection can hold
MaxSink == 5

\* generation dates of the schedule specification: this many years from EpochYear
ScheduleYears == 2

NULL == 0 - 1

----------------------------------------------------------------------------
(* Calendar arithmetic of the JavaScript Date object (local time, no DST) *)

IsLeap(y) == (y % 4 = 0) /\ ((y % 100 # 0) \/ (y % 400 = 0))

DaysInYear(y) == IF IsLeap(y) THEN 366 ELSE 365

\* m is a JavaScript month, 0..11
DaysInMonth(y, m) ==
    IF m = 1 THEN (IF IsLeap(y) THEN 29 ELSE 28)
    ELSE IF m \in {3, 5, 8, 10} THEN 30 ELSE 31

RECURSIVE DaysBeforeYear(_)
DaysBeforeYear(y) ==
    IF y <= EpochYear THEN 0 ELSE DaysBeforeYear(y - 1) + DaysInYear(y - 1)

RECURSIVE DaysBeforeMonth(_, _)
DaysBeforeMonth(y, m) ==
    IF m = 0 THEN 0 ELSE DaysBeforeMonth(y, m - 1) + DaysInMonth(y, m - 1)

\* ECMAScript MakeDay: month and day may lie outside their range and carry over
MakeDay(y, m, d) ==
    LET yy == y + (m \div 12)
        mm == m % 12
    IN  DaysBeforeYear(yy) + DaysBeforeMonth(yy, mm) + (d - 1)

DayOf(t) == t \div TicksPerDay
TimeOfDay(t) == t % TicksPerDay

RECURSIVE YearFrom(_, _)
YearFrom(y, n) == IF n < DaysBeforeYear(y + 1) THEN y ELSE YearFrom(y + 1, n)
getFullYear(t) == YearFrom(EpochYear, DayOf(t))

RECURSIVE MonthFrom(_, _, _)
MonthFrom(y, m, n) ==
    IF n < DaysBeforeYear(y) + DaysBeforeMonth(y, m) + DaysInMonth(y, m)
    THEN m ELSE MonthFrom(y, m + 1, n)
getMonth(t) == MonthFrom(getFullYear(t), 0, DayOf(t))

getDate(t) ==
    DayOf(t) - (DaysBeforeYear(getFullYear(t))
                + DaysBeforeMonth(getFullYear(t), getMonth(t))) + 1

\* Date.prototype.setMonth(m): same day of month and time, month m (may be > 11)
setMonth(t, m) ==
    MakeDay(getFullYear(t), m, getDate(t)) * TicksPerDay + TimeOfDay(t)

\* Date.prototype.setDate(d): same month and time, day d (may be out of range)
setDate(t, d) ==
    MakeDay(getFullYear(t), getMonth(t), d) * TicksPerDay + TimeOfDay(t)

\* Date.prototype.setHours(0, 0, 0, 0)
Midnight(t) == t - TimeOfDay(t)

\* d.setDate(d.getDate() + n): MakeDay carries the days over, which adds n days
AddDays(t, n) == t + n * TicksPerDay

StartTick == MakeDay(StartDate.y, StartDate.m, StartDate.d) * TicksPerDay
EndTick == StartTick + MaxDays * TicksPerDay - 1

----------------------------------------------------------------------------
(* EmiPlan *)

\* plans of the lifecycle specifications and of the schedule specification
LifecyclePlans ==
    { [tenure |-> 2, interestRate |-> 0, processingFee |-> 0,
       minOrderAmount |-> 1000, maxOrderAmount |-> NULL] }
SchedulePlans ==
    { [tenure |-> n, interestRate |-> 0, processingFee |-> 0,
       minOrderAmount |-> 2000, maxOrderAmount |-> 5000] : n \in {3, 6, 12} }

\* principal amounts of the apply requests, and the UserKyc documents they meet
Principals == {1500, 4000}
KycStates == { [verificationStatus |-> "verified", creditLimit |-> 3000],
               [verificationStatus |-> "pending", creditLimit |-> 3000] }
TransactionIds == {"tx1"}
PaymentMethods == {"upi"}
PaymentReferences == {"ref1"}

----------------------------------------------------------------------------
(* Numbers.  A JavaScript Number is an IEEE 754 double: 53 significant bits,  *)
(* every operation rounded to the nearest double, ties to even.  The natural  *)
(* numbers it takes to compute that are sequences of limbs, least significant *)
(* limb first, without leading zero limbs; <<>> is zero.                      *)

Limb == 32768
LimbBits == 15
Precision == 53

Big(n) ==
    IF n = 0 THEN <<>>
    ELSE IF n < Limb THEN <<n>>
    ELSE IF n < Limb * Limb THEN <<n % Limb, n \div Limb>>
    ELSE <<n % Limb, (n \div Limb) % Limb, n \div (Limb * Limb)>>

RECURSIVE BigToInt(_)
BigToInt(a) == IF a = <<>> THEN 0 ELSE Head(a) + Limb * BigToInt(Tail(a))

LimbAt(a, i) == IF i <= Len(a) THEN a[i] ELSE 0

\* a without its leading zero limbs
BigNorm(a) ==
    LET used == { i \in DOMAIN a : a[i] # 0 }
    IN  IF used = {} THEN <<>>
        ELSE SubSeq(a, 1, CHOOSE i \in used : \A j \in used : j <= i)

\* a + b: position i receives a carry when a position below it overflows and
\* every position between the two is full
BigAdd(a, b) ==
    LET n == (IF Len(a) < Len(b) THEN Len(b) ELSE Len(a)) + 1
        sum == [i \in 1..n |-> LimbAt(a, i) + LimbAt(b, i)]
        carry(i) == IF \E j \in 1..(i - 1) :
                          sum[j] >= Limb /\ \A k \in (j + 1)..(i - 1) : sum[k] >= Limb - 1
                    THEN 1 ELSE 0
    IN  BigNorm([i \in 1..n |-> (sum[i] + carry(i)) % Limb])

\* a - b, for a >= b, with the borrows found the same way
BigSub(a, b) ==
    LET diff == [i \in DOMAIN a |-> a[i] - LimbAt(b, i)]
        borrow(i) == IF \E j \in 1..(i - 1) :
                           diff[j] < 0 /\ \A k \in (j + 1)..(i - 1) : diff[k] <= 0
                     THEN 1 ELSE 0
    IN  BigNorm([i \in DOMAIN a |-> (diff[i] + Limb - borrow(i)) % Limb])

BigLess(a, b) ==
    \/ Len(a) < Len(b)
    \/ /\ Len(a) = Len(b)
       /\ \E i \in DOMAIN a : a[i] < b[i] /\ \A j \in (i + 1)..Len(a) : a[j] = b[j]

\* a * d, for a limb d: the low halves of the products plus their high halves
BigMulLimb(a, d) ==
    BigAdd([i \in DOMAIN a |-> (a[i] * d) % Limb],
           <<0>> \o [i \in DOMAIN a |-> (a[i] * d) \div Limb])

Zeros(n) == [i \in 1..n |-> 0]

RECURSIVE BigMul(_, _)
BigMul(a, b) ==
    IF Len(b) = 0 THEN <<>>
    ELSE IF Len(b) = 1 THEN BigMulLimb(a, b[1])
    ELSE LET h == Len(b) \div 2
         IN  BigAdd(BigMul(a, SubSeq(b, 1, h)),
                    BigNorm(Zeros(h) \o BigMul(a, SubSeq(b, h + 1, Len(b)))))

RECURSIVE BigPow(_, _)
BigPow(a, n) ==
    IF n = 0 THEN <<1>>
    ELSE LET half == BigPow(a, n \div 2)
             square == BigMul(half, half)
         IN  IF n % 2 = 1 THEN BigMul(square, a) ELSE square

\* the largest limb t with the bits of d and bits below 2^(k+1) such that b * t <= r
RECURSIVE QuotientLimb(_, _, _, _)
QuotientLimb(r, b, d, k) ==
    IF k < 0 THEN d
    ELSE IF BigLess(r, BigMulLimb(b, d + 2^k)) THEN QuotientLimb(r, b, d, k - 1)
    ELSE QuotientLimb(r, b, d + 2^k, k - 1)

\* quotient and remainder of a by b # 0, long division from the top limb down
RECURSIVE BigDivMod(_, _)
BigDivMod(a, b) ==
    IF a = <<>> THEN [q |-> <<>>, r |-> <<>>]
    ELSE LET upper == BigDivMod(Tail(a), b)
             r == BigNorm(<<Head(a)>> \o upper.r)
             d == QuotientLimb(r, b, 0, LimbBits - 1)
         IN  [q |-> BigNorm(<<d>> \o upper.q), r |-> BigSub(r, BigMulLimb(b, d))]

BigBitLen(a) ==
    IF a = <<>> THEN 0
    ELSE LimbBits * (Len(a) - 1)
           + (CHOOSE k \in 1..LimbBits : 2^(k - 1) <= a[Len(a)] /\ a[Len(a)] < 2^k)

\* a * 2^k
BigShl(a, k) ==
    IF a = <<>> THEN <<>>
    ELSE Zeros(k \div LimbBits) \o BigMulLimb(a, 2^(k % LimbBits))

\* a \div 2^k
BigShr(a, k) ==
    LET q == k \div LimbBits
        r == k % LimbBits
    IN  BigNorm([i \in 1..(Len(a) - q) |->
                    (a[i + q] \div 2^r) + (LimbAt(a, i + q + 1) % 2^r) * 2^(LimbBits - r)])

\* bit k of a, and whether a bit below bit k is set
BigBit(a, k) == (LimbAt(a, k \div LimbBits + 1) \div 2^(k % LimbBits)) % 2 = 1
BigBitsBelow(a, k) ==
    \/ \E i \in 1..(k \div LimbBits) : LimbAt(a, i) # 0
    \/ LimbAt(a, k \div LimbBits + 1) % 2^(k % LimbBits) # 0

\* a double is the number m * 2^e of a natural m of at most 53 bits and an
\* integer e.  The double for q * 2^e, or for a little more than that when
\* inexact: the nearest, ties to even ("nearest"), the next below ("down") or
\* the next above ("up")
RoundToDouble(q, inexact, e, mode) ==
    IF BigBitLen(q) <= Precision THEN [m |-> q, e |-> e]
    ELSE LET drop == BigBitLen(q) - Precision
             kept == BigShr(q, drop)
             half == BigBit(q, drop - 1)
             below == BigBitsBelow(q, drop - 1) \/ inexact
             up == CASE mode = "nearest" -> half /\ (below \/ kept[1] % 2 = 1)
                     [] mode = "down" -> FALSE
                     [] mode = "up" -> half \/ below
         IN  [m |-> IF up THEN BigAdd(kept, <<1>>) ELSE kept, e |-> e + drop]

FromInt(n) == [m |-> Big(n), e |-> 0]

Times(x, y) == RoundToDouble(BigMul(x.m, y.m), FALSE, x.e + y.e, "nearest")

\* x / y: the quotient is taken to two bits more than a double holds
Over(x, y) ==
    IF x.m = <<>> THEN x
    ELSE LET s == Precision + 1 + BigBitLen(y.m) - BigBitLen(x.m)
             full == BigDivMod(BigShl(x.m, s), y.m)
         IN  RoundToDouble(full.q, full.r # <<>>, x.e - y.e - s, "nearest")

Aligned(x, e) == BigShl(x.m, x.e - e)
LowerExp(x, y) == IF x.e < y.e THEN x.e ELSE y.e
Plus(x, y) ==
    RoundToDouble(BigAdd(Aligned(x, LowerExp(x, y)), Aligned(y, LowerExp(x, y))),
                  FALSE, LowerExp(x, y), "nearest")
\* x - y, for x >= y
Minus(x, y) ==
    RoundToDouble(BigSub(Aligned(x, LowerExp(x, y)), Aligned(y, LowerExp(x, y))),
                  FALSE, LowerExp(x, y), "nearest")

\* Math.pow of an integer exponent n >= 1.  ECMAScript leaves the accuracy of
\* Math.pow to the implementation: the result is one of the two doubles next to
\* the exact power, or the power itself when that is a double
PowRoundings == {"down", "up"}
MathPow(x, n, rounding) == RoundToDouble(BigPow(x.m, n), FALSE, x.e * n, rounding)

\* fault: Math.floor in place of Math.ceil
MathCeil_Floor(x) ==
    IF x.e >= 0 THEN BigToInt(BigShl(x.m, x.e)) ELSE BigToInt(BigShr(x.m, 0 - x.e))

\* Math.ceil of a double, as an integer
MathCeil(x) ==
    IF x.e >= 0 THEN BigToInt(BigShl(x.m, x.e))
    ELSE BigToInt(BigShr(x.m, 0 - x.e))
           + (IF BigBitsBelow(x.m, 0 - x.e) THEN 1 ELSE 0)

calculateEMI(plan, principal, rounding) ==
    LET P == FromInt(principal)
        R == Over(Over(FromInt(plan.interestRate), FromInt(12)), FromInt(100))
        N == plan.tenure
    IN  IF R.m = <<>>
        THEN MathCeil(Over(P, FromInt(N)))
        ELSE LET power == MathPow(Plus(FromInt(1), R), N, rounding)
                 emi == Over(Times(Times(P, R), power), Minus(power, FromInt(1)))
             IN  MathCeil(emi)

----------------------------------------------------------------------------
(* EmiApplication *)

NoApp == [status |-> "none"]

\* Array.prototype.find over a sequence of test results: the index of the first
\* element that passes, or 0
FirstIndex(hits) ==
    IF \E i \in DOMAIN hits : hits[i]
    THEN CHOOSE i \in DOMAIN hits : hits[i] /\ \A j \in 1..(i - 1) : ~hits[j]
    ELSE 0

\* the k-th due date: startDate moved k months on, then set to the 5th
DueDay == 5
InstallmentDueDate(startDate, i) ==
    setDate(setMonth(startDate, getMonth(startDate) + i), DueDay)

generateSchedule(a, startDate) ==
    LET installments ==
            [i \in 1..a.tenure |->
                [installmentNumber |-> i,
                 dueDate |-> InstallmentDueDate(startDate, i),
                 amount |-> a.monthlyEmi,
                 status |-> "pending",
                 paidDate |-> NULL,
                 transactionId |-> "",
                 paymentMethod |-> ""]]
    IN  [a EXCEPT !.installments = installments,
                  !.remainingInstallments = a.tenure,
                  !.nextDueDate = installments[1].dueDate]

\* the document POST /emi/apply builds
NewApplication(plan, principalAmount, rounding) ==
    LET monthlyEmi == calculateEMI(plan, principalAmount, rounding)
        totalAmount == monthlyEmi * plan.tenure
        totalInterest == totalAmount - principalAmount
    IN  [status |-> "approved",
         principalAmount |-> principalAmount,
         totalInterest |-> totalInterest,
         processingFee |-> plan.processingFee,
         totalAmount |-> totalAmount + plan.processingFee,
         tenure |-> plan.tenure,
         monthlyEmi |-> monthlyEmi,
         installments |-> <<>>,
         paidInstallments |-> 0,
         remainingInstallments |-> NULL,
         nextDueDate |-> NULL,
         approvedAt |-> NULL,
         completedAt |-> NULL]

NoPlan == [tenure |-> 0]

\* POST /emi/apply; one application is modelled: the request is served while the
\* collection is empty
Apply(kyc, principalAmount, plan) ==
    /\ app = NoApp
    /\ IF /\ kyc.verificationStatus = "verified"
          /\ principalAmount <= kyc.creditLimit
          /\ plan # NoPlan
       THEN \E rounding \in PowRoundings :
               app' = [generateSchedule(NewApplication(plan, principalAmount, rounding),
                                        now)
                          EXCEPT !.approvedAt = now]
       ELSE app' = app
    /\ UNCHANGED <<now, plans, ledger, sink, hist, inflight>>

\* fault: the pay route without `remainingInstallments -= 1`
PayUpdate_KeepsRemaining(a, k, transactionId, paymentMethod) ==
    LET paid == [a.installments EXCEPT ![k] =
                    [@ EXCEPT !.status = "paid",
                              !.paidDate = now,
                              !.transactionId = transactionId,
                              !.paymentMethod = paymentMethod]]
        nextPending == FirstIndex([i \in DOMAIN paid |-> paid[i].status = "pending"])
        remaining == a.remainingInstallments
    IN  [a EXCEPT !.installments = paid,
                  !.paidInstallments = a.paidInstallments + 1,
                  !.remainingInstallments = remaining,
                  !.nextDueDate = IF nextPending # 0 THEN paid[nextPending].dueDate
                                  ELSE NULL,
                  !.status = IF remaining = 0 THEN "completed" ELSE @,
                  !.completedAt = IF remaining = 0 THEN now ELSE @]

\* fault: the pay route taking the installment after the paid one as the next due
PayUpdate_NextByNumber(a, k, transactionId, paymentMethod) ==
    LET paid == [a.installments EXCEPT ![k] =
                    [@ EXCEPT !.status = "paid",
                              !.paidDate = now,
                              !.transactionId = transactionId,
                              !.paymentMethod = paymentMethod]]
        remaining == a.remainingInstallments - 1
    IN  [a EXCEPT !.installments = paid,
                  !.paidInstallments = a.paidInstallments + 1,
                  !.remainingInstallments = remaining,
                  !.nextDueDate = IF k + 1 \in DOMAIN paid THEN paid[k + 1].dueDate
                                  ELSE NULL,
                  !.status = IF remaining = 0 THEN "completed" ELSE @,
                  !.completedAt = IF remaining = 0 THEN now ELSE @]

\* the mutation of POST /emi/pay/:applicationId/:installmentNumber, lines 151-169
PayUpdate(a, k, transactionId, paymentMethod) ==
    LET paid == [a.installments EXCEPT ![k] =
                    [@ EXCEPT !.status = "paid",
                              !.paidDate = now,
                              !.transactionId = transactionId,
                              !.paymentMethod = paymentMethod]]
        nextPending == FirstIndex([i \in DOMAIN paid |-> paid[i].status = "pending"])
        remaining == a.remainingInstallments - 1
    IN  [a EXCEPT !.installments = paid,
                  !.paidInstallments = a.paidInstallments + 1,
                  !.remainingInstallments = remaining,
                  !.nextDueDate = IF nextPending # 0 THEN paid[nextPending].dueDate
                                  ELSE NULL,
                  !.status = IF remaining = 0 THEN "completed" ELSE @,
                  !.completedAt = IF remaining = 0 THEN now ELSE @]

\* installments.find(i => i.installmentNumber === Number(installmentNumber))
FindInstallment(a, installmentNumber) ==
    FirstIndex([i \in DOMAIN a.installments |->
                    a.installments[i].installmentNumber = installmentNumber])

\* fault: the pay route refusing an application that is not approved or active
PayAccepted_OpenOnly(a, installmentNumber) ==
    /\ a # NoApp
    /\ a.status \in {"approved", "active"}
    /\ FindInstallment(a, installmentNumber) # 0
    /\ a.installments[FindInstallment(a, installmentNumber)].status # "paid"

\* fault: the pay route without its 'Installment already paid' rejection
PayAccepted_NoPaidCheck(a, installmentNumber) ==
    /\ a # NoApp
    /\ FindInstallment(a, installmentNumber) # 0

PayAccepted(a, installmentNumber) ==
    /\ a # NoApp
    /\ FindInstallment(a, installmentNumber) # 0
    /\ a.installments[FindInstallment(a, installmentNumber)].status # "paid"

\* the document the pay route leaves in the collection
payInstallment(a, installmentNumber, transactionId, paymentMethod) ==
    IF PayAccepted(a, installmentNumber)
    THEN PayUpdate(a, FindInstallment(a, installmentNumber), transactionId, paymentMethod)
    ELSE a

PayInstallment(installmentNumber, transactionId, paymentMethod) ==
    /\ app' = payInstallment(app, installmentNumber, transactionId, paymentMethod)
    /\ UNCHANGED <<now, plans, ledger, sink, hist, inflight>>

----------------------------------------------------------------------------
(* PenaltyLedger *)

\* schema defaults: 0.1 percent a day, three days of grace
DefaultPenaltyRate == [num |-> 1, den |-> 10]
DefaultGracePeriodDays == 3

OpenStatuses == {"pending", "grace_period", "overdue"}

NewLedger(emi) ==
    [installmentNo |-> emi.paidInstallments + 1,
     originalAmount |-> emi.monthlyEmi,
     dueDate |-> emi.nextDueDate,
     missedDate |-> NULL,
     penaltyRate |-> DefaultPenaltyRate,
     daysOverdue |-> 0,
     penaltyAmount |-> 0,
     totalPayable |-> NULL,
     gracePeriodDays |-> DefaultGracePeriodDays,
     isInGracePeriod |-> TRUE,
     status |-> "pending",
     paidAmount |-> NULL,
     paidDate |-> NULL,
     paymentReference |-> "",
     isWaived |-> FALSE,
     notifications |-> <<>>]

Notified(type) == [type |-> type, channel |-> "push", status |-> "sent"]

HasNotification(l, type) ==
    \E i \in DOMAIN l.notifications : l.notifications[i].type = type

\* Math.round of the non-negative fraction num / den
Round(num, den) == (2 * num + den) \div (2 * den)

\* fault: Math.floor in place of Math.round
PenaltyFor_Floor(originalAmount, penaltyRate, daysOverdue) ==
    (originalAmount * penaltyRate.num * daysOverdue) \div (penaltyRate.den * 100)

\* Math.round(originalAmount * (penaltyRate / 100) * daysOverdue)
PenaltyFor(originalAmount, penaltyRate, daysOverdue) ==
    Round(originalAmount * penaltyRate.num * daysOverdue, penaltyRate.den * 100)

\* Math.floor((now - gracePeriodEnd) / msPerDay), for now > gracePeriodEnd
DaysOverdueAt(gracePeriodEnd, t) == (t - gracePeriodEnd) \div TicksPerDay

\* fault: calculatePenalty adding the penalty to the one already stored
calculatePenalty_Accrues(l, t) ==
    IF l.status \in {"paid", "waived"} THEN l
    ELSE LET gracePeriodEnd == AddDays(l.dueDate, l.gracePeriodDays)
             daysOverdue == DaysOverdueAt(gracePeriodEnd, t)
             penaltyAmount == l.penaltyAmount
                              + PenaltyFor(l.originalAmount, l.penaltyRate, daysOverdue)
         IN  IF t <= gracePeriodEnd
             THEN [l EXCEPT !.isInGracePeriod = TRUE,
                            !.daysOverdue = 0,
                            !.penaltyAmount = 0]
             ELSE [l EXCEPT !.isInGracePeriod = FALSE,
                            !.daysOverdue = daysOverdue,
                            !.penaltyAmount = penaltyAmount,
                            !.totalPayable = l.originalAmount + penaltyAmount]

\* penaltyLedgerSchema.methods.calculatePenalty, called at time t
calculatePenalty(l, t) ==
    IF l.status \in {"paid", "waived"} THEN l
    ELSE LET gracePeriodEnd == AddDays(l.dueDate, l.gracePeriodDays)
             daysOverdue == DaysOverdueAt(gracePeriodEnd, t)
             penaltyAmount == PenaltyFor(l.originalAmount, l.penaltyRate, daysOverdue)
         IN  IF t <= gracePeriodEnd
             THEN [l EXCEPT !.isInGracePeriod = TRUE,
                            !.daysOverdue = 0,
                            !.penaltyAmount = 0]
             ELSE [l EXCEPT !.isInGracePeriod = FALSE,
                            !.daysOverdue = daysOverdue,
                            !.penaltyAmount = penaltyAmount,
                            !.totalPayable = l.originalAmount + penaltyAmount]

----------------------------------------------------------------------------
(* Notification sink: sendNotification saves one Notification per call and  *)
(* swallows every error, so a call always returns                           *)

NotificationTypes ==
    {"reminder_3_days", "due_today", "overdue_1_day", "overdue_grace_ended"}
NoNotifications == [type \in NotificationTypes |-> 0]

sendNotification(s, type) == [s EXCEPT ![type] = @ + 1]

RECURSIVE sendAll(_, _)
sendAll(s, types) ==
    IF types = <<>> THEN s ELSE sendAll(sendNotification(s, Head(types)), Tail(types))

SinkTotal(s) ==
    s["reminder_3_days"] + s["due_today"] + s["overdue_1_day"] + s["overdue_grace_ended"]

----------------------------------------------------------------------------
(* The passes of the payment reminder job.  A pass works on db, a record    *)
(* [app, ledger, sink] of the three collections, and returns it updated.    *)

ReminderLeadDays == 3
GraceEndDays == 3

\* PenaltyLedger.findOne({emiApplicationId, dueDate}): index of the first match, or 0
FindLedger(ledgers, dueDate) ==
    FirstIndex([i \in DOMAIN ledgers |-> ledgers[i].dueDate = dueDate])

\* EmiApplication.find({status: 'active', nextDueDate: {$gte: from, $lt: to}})
DueBetween(a, from, to) ==
    /\ a # NoApp
    /\ a.status = "active"
    /\ a.nextDueDate # NULL
    /\ from <= a.nextDueDate
    /\ a.nextDueDate < to

\* processUpcomingReminders at time t
processUpcomingReminders(db, t) ==
    LET threeDaysFromNow == Midnight(AddDays(t, ReminderLeadDays))
        nextDay == AddDays(threeDaysFromNow, 1)
        emi == db.app
        Reminded(l) == l.dueDate = emi.nextDueDate /\ HasNotification(l, "reminder_3_days")
        existingLedger == FirstIndex([i \in DOMAIN db.ledger |-> Reminded(db.ledger[i])])
        found == FindLedger(db.ledger, emi.nextDueDate)
        pushed(l) == [l EXCEPT !.notifications = Append(@, Notified("reminder_3_days"))]
    IN  IF ~DueBetween(emi, threeDaysFromNow, nextDay) \/ existingLedger # 0
        THEN db
        ELSE [db EXCEPT
                !.sink = sendNotification(@, "reminder_3_days"),
                !.ledger = IF found # 0
                           THEN [@ EXCEPT ![found] = pushed(@)]
                           ELSE Append(@, pushed(NewLedger(emi)))]

\* processDueDateReminders at time t
processDueDateReminders(db, t) ==
    LET today == Midnight(t)
        tomorrow == AddDays(today, 1)
        emi == db.app
        found == FindLedger(db.ledger, emi.nextDueDate)
    IN  IF ~DueBetween(emi, today, tomorrow) THEN db
        ELSE IF found # 0 /\ HasNotification(db.ledger[found], "due_today") THEN db
        ELSE [db EXCEPT
                !.sink = sendNotification(@, "due_today"),
                !.ledger = IF found # 0
                           THEN [@ EXCEPT ![found].notifications =
                                              Append(@, Notified("due_today"))]
                           ELSE @]

\* fault: the query of the overdue pass without its status filter
OverdueSelected_AnyStatus(l, today) == l.dueDate < today

\* PenaltyLedger.find({dueDate: {$lt: today}, status: {$in: [...]}})
OverdueSelected(l, today) == l.dueDate < today /\ l.status \in OpenStatuses

\* Math.floor((today - dueDate) / msPerDay), for dueDate < today
DaysSinceDue(l, today) == (today - l.dueDate) \div TicksPerDay

\* fault: the first block without the look-up in the notification log
OverdueDayOne_Unguarded(l, today) ==
    IF DaysSinceDue(l, today) = 1
    THEN [l EXCEPT !.status = "grace_period",
                   !.notifications = Append(@, Notified("overdue_1_day"))]
    ELSE l

\* the first block of the loop body: day 1 after the due date
OverdueDayOne(l, today) ==
    IF DaysSinceDue(l, today) = 1 /\ ~HasNotification(l, "overdue_1_day")
    THEN [l EXCEPT !.status = "grace_period",
                   !.notifications = Append(@, Notified("overdue_1_day"))]
    ELSE l

GraceEnds(l, today) == DaysSinceDue(l, today) >= GraceEndDays /\ l.isInGracePeriod

\* fault: the second block without `ledger.missedDate = dueDate`
OverdueGraceEnd_NoMissedDate(l, today, t) ==
    IF GraceEnds(l, today)
    THEN calculatePenalty([l EXCEPT !.isInGracePeriod = FALSE,
                                    !.status = "overdue"], t)
    ELSE l

\* the second block, up to the penalty calculation
OverdueGraceEnd(l, today, t) ==
    IF GraceEnds(l, today)
    THEN calculatePenalty([l EXCEPT !.isInGracePeriod = FALSE,
                                    !.status = "overdue",
                                    !.missedDate = l.dueDate], t)
    ELSE l

\* fault: the notification formats an undefined totalPayable without throwing
GraceEndThrows_Never(l, today, t) == FALSE

\* ledger.totalPayable.toLocaleString() of an undefined totalPayable throws
GraceEndThrows(l, today, t) ==
    GraceEnds(l, today) /\ OverdueGraceEnd(l, today, t).totalPayable = NULL

\* the rest of the second block: the notification is logged
OverdueGraceEndLogged(l, today, t) ==
    IF GraceEnds(l, today)
    THEN [OverdueGraceEnd(l, today, t) EXCEPT
            !.notifications = Append(@, Notified("overdue_grace_ended"))]
    ELSE l

\* the third block: the penalty of an entry out of grace is recomputed
OverdueRecompute(l, t) == IF ~l.isInGracePeriod THEN calculatePenalty(l, t) ELSE l

\* the loop body on the loaded document l; today is the pass's, t the clock's
OverdueEntry(l, today, t) ==
    LET one == OverdueDayOne(l, today)
        threw == GraceEndThrows(one, today, t)
        two == OverdueGraceEndLogged(one, today, t)
    IN  [threw |-> threw,
         doc |-> IF threw THEN l ELSE OverdueRecompute(two, t),
         sent |-> (IF one # l THEN <<"overdue_1_day">> ELSE <<>>)
                  \o (IF ~threw /\ GraceEnds(one, today)
                      THEN <<"overdue_grace_ended">> ELSE <<>>),
         defaulted |-> ~threw /\ GraceEnds(one, today)]

\* EmiApplication.findByIdAndUpdate(id, {status: 'defaulted'})
Defaulted(a) == IF a = NoApp THEN a ELSE [a EXCEPT !.status = "defaulted"]

\* the loop of processOverdueEmis from entry i on; an exception ends the pass
RECURSIVE OverdueLoop(_, _, _, _)
OverdueLoop(db, i, today, t) ==
    IF i > Len(db.ledger) THEN [db EXCEPT !.threw = FALSE]
    ELSE IF ~OverdueSelected(db.ledger[i], today) THEN OverdueLoop(db, i + 1, today, t)
    ELSE LET r == OverdueEntry(db.ledger[i], today, t)
         IN  IF r.threw
             THEN [db EXCEPT !.threw = TRUE,
                             !.sink = sendAll(@, r.sent)]
             ELSE OverdueLoop(
                    [db EXCEPT !.ledger[i] = r.doc,
                               !.sink = sendAll(@, r.sent),
                               !.app = IF r.defaulted THEN Defaulted(@) ELSE @,
                               !.saved = @ \cup {i}],
                    i + 1, today, t)

\* processOverdueEmis at time t
processOverdueEmis(db, t) ==
    OverdueLoop([app |-> db.app, ledger |-> db.ledger, sink |-> db.sink,
                 threw |-> FALSE, saved |-> {}], 1, Midnight(t), t)

\* runPaymentReminderJob: the three passes in turn; an exception is caught and logged
runPaymentReminderJob(db, t) ==
    processOverdueEmis(processDueDateReminders(processUpcomingReminders(db, t), t), t)

----------------------------------------------------------------------------
(* Actions *)

Db == [app |-> app, ledger |-> ledger, sink |-> sink]

\* history of the overdue pass: whether it ran today, how often it ran at this tick
\* (0, 1, or 2 for "more than once"), and the ledger entries its last run saved
NoHistory == [ranToday |-> FALSE, runsNow |-> 0, saved |-> {}]
Idle == [busy |-> FALSE]

\* the clock moves on by one tick
Tick ==
    /\ now < EndTick
    /\ now' = now + 1
    /\ hist' = IF DayOf(now + 1) # DayOf(now) THEN NoHistory
               ELSE [hist EXCEPT !.runsNow = 0, !.saved = {}]
    /\ UNCHANGED <<plans, app, ledger, sink, inflight>>

\* the application is disbursed: approved -> active
Disburse ==
    /\ app # NoApp
    /\ app.status = "approved"
    /\ app' = [app EXCEPT !.status = "active"]
    /\ UNCHANGED <<now, plans, ledger, sink, hist, inflight>>

\* a ledger entry is settled: pending / grace_period / overdue -> paid; the
\* payment reference and the payment date are the confirmation's
SettleLedger(i, paymentReference, paidAt) ==
    /\ i \in DOMAIN ledger
    /\ ledger[i].status \in OpenStatuses
    /\ ledger' = [ledger EXCEPT ![i] =
                    [@ EXCEPT !.status = "paid",
                              !.paidAmount = ledger[i].originalAmount
                                             + ledger[i].penaltyAmount,
                              !.paidDate = paidAt,
                              !.paymentReference = paymentReference]]
    /\ UNCHANGED <<now, plans, app, sink, hist, inflight>>

\* a ledger entry is waived: any non-terminal status -> waived
WaiveLedger(i) ==
    /\ i \in DOMAIN ledger
    /\ ledger[i].status \in OpenStatuses
    /\ ledger' = [ledger EXCEPT ![i] = [@ EXCEPT !.status = "waived", !.isWaived = TRUE]]
    /\ UNCHANGED <<now, plans, app, sink, hist, inflight>>

\* the Notification collection holds at most MaxSink records
SinkHasRoom == SinkTotal(sink) < MaxSink

OverdueRan(h, saved) ==
    [ranToday |-> TRUE, runsNow |-> IF h.runsNow = 0 THEN 1 ELSE 2, saved |-> saved]

ProcessUpcomingReminders ==
    /\ SinkHasRoom
    /\ LET db == processUpcomingReminders(Db, now)
       IN  /\ ledger' = db.ledger
           /\ sink' = db.sink
    /\ UNCHANGED <<now, plans, app, hist, inflight>>

ProcessDueDateReminders ==
    /\ SinkHasRoom
    /\ LET db == processDueDateReminders(Db, now)
       IN  /\ ledger' = db.ledger
           /\ sink' = db.sink
    /\ UNCHANGED <<now, plans, app, hist, inflight>>

ProcessOverdueEmis ==
    /\ SinkHasRoom
    /\ LET db == processOverdueEmis(Db, now)
       IN  /\ app' = db.app
           /\ ledger' = db.ledger
           /\ sink' = db.sink
           /\ hist' = OverdueRan(hist, db.saved)
    /\ UNCHANGED <<now, plans, inflight>>

RunPaymentReminderJob ==
    /\ SinkHasRoom
    /\ LET db == runPaymentReminderJob(Db, now)
       IN  /\ app' = db.app
           /\ ledger' = db.ledger
           /\ sink' = db.sink
           /\ hist' = OverdueRan(hist, db.saved)
    /\ UNCHANGED <<now, plans, inflight>>

InstallmentNumbers == 1..3

\* apply requests arrive within the first ApplyDays days
Requests ==
    \/ /\ DayOf(now) < DayOf(StartTick) + ApplyDays
       /\ \E kyc \in KycStates, p \in Principals, plan \in plans \cup {NoPlan} :
             Apply(kyc, p, plan)
    \/ \E n \in InstallmentNumbers, tx \in TransactionIds, m \in PaymentMethods :
          PayInstallment(n, tx, m)
    \/ Disburse

Settlements ==
    \/ \E i \in DOMAIN ledger, ref \in PaymentReferences :
          SettleLedger(i, ref, ledger[i].dueDate)
    \/ \E i \in DOMAIN ledger : WaiveLedger(i)

Batch ==
    \/ ProcessUpcomingReminders
    \/ ProcessDueDateReminders
    \/ ProcessOverdueEmis
    \/ RunPaymentReminderJob

Init ==
    /\ now = StartTick
    /\ plans = LifecyclePlans
    /\ app = NoApp
    /\ ledger = <<>>
    /\ sink = NoNotifications
    /\ hist = NoHistory
    /\ inflight = Idle

Next == Tick \/ Requests \/ Settlements \/ Batch

Spec == Init /\ [][Next]_vars

----------------------------------------------------------------------------
(* The scheduler's discipline: one run of the job on every calendar day *)

DailyTick == Tick /\ (DayOf(now + 1) # DayOf(now) => hist.ranToday)
DailyJob == RunPaymentReminderJob /\ ~hist.ranToday

NextDaily == DailyTick \/ Requests \/ Settlements \/ DailyJob

SpecDaily == Init /\ [][NextDaily]_vars

----------------------------------------------------------------------------
(* Schedule generation alone, from every date of ScheduleYears years *)

InitSchedule ==
    /\ now \in 0..(DaysBeforeYear(EpochYear + ScheduleYears) * TicksPerDay - 1)
    /\ plans = SchedulePlans
    /\ app = NoApp
    /\ ledger = <<>>
    /\ sink = NoNotifications
    /\ hist = NoHistory
    /\ inflight = Idle

Generate ==
    \E kyc \in KycStates, p \in Principals, plan \in plans \cup {NoPlan} :
        Apply(kyc, p, plan)

SpecSchedule == InitSchedule /\ [][Generate]_vars

----------------------------------------------------------------------------
(* The overdue pass step by step, as it interleaves with the other writers: *)
(* find() loads the documents, then each is processed and saved in turn     *)

\* document.save() writes the paths the pass changed on the loaded document
\* and pushes the notifications it appended
SaveLedger(stored, loaded, changed) ==
    [stored EXCEPT
        !.status = IF changed.status # loaded.status THEN changed.status ELSE @,
        !.missedDate =
            IF changed.missedDate # loaded.missedDate THEN changed.missedDate ELSE @,
        !.isInGracePeriod =
            IF changed.isInGracePeriod # loaded.isInGracePeriod
            THEN changed.isInGracePeriod ELSE @,
        !.daysOverdue =
            IF changed.daysOverdue # loaded.daysOverdue THEN changed.daysOverdue ELSE @,
        !.penaltyAmount =
            IF changed.penaltyAmount # loaded.penaltyAmount
            THEN changed.penaltyAmount ELSE @,
        !.totalPayable =
            IF changed.totalPayable # loaded.totalPayable
            THEN changed.totalPayable ELSE @,
        !.notifications =
            @ \o SubSeq(changed.notifications, Len(loaded.notifications) + 1,
                        Len(changed.notifications))]

RECURSIVE LoadedFrom(_, _)
LoadedFrom(i, today) ==
    IF i > Len(ledger) THEN <<>>
    ELSE (IF OverdueSelected(ledger[i], today)
          THEN <<[index |-> i, doc |-> ledger[i]]>> ELSE <<>>)
         \o LoadedFrom(i + 1, today)

OverdueLoad ==
    /\ ~inflight.busy
    /\ SinkHasRoom
    /\ LoadedFrom(1, Midnight(now)) # <<>>
    /\ inflight' = [busy |-> TRUE, today |-> Midnight(now),
                    docs |-> LoadedFrom(1, Midnight(now))]
    /\ UNCHANGED <<now, plans, app, ledger, sink, hist>>

OverdueStep ==
    /\ inflight.busy
    /\ LET head == Head(inflight.docs)
           r == OverdueEntry(head.doc, inflight.today, now)
       IN  /\ sink' = sendAll(sink, r.sent)
           /\ ledger' = IF r.threw THEN ledger
                        ELSE [ledger EXCEPT ![head.index] = SaveLedger(@, head.doc, r.doc)]
           /\ app' = IF r.defaulted THEN Defaulted(app) ELSE app
           /\ inflight' = IF r.threw \/ Tail(inflight.docs) = <<>> THEN Idle
                          ELSE [inflight EXCEPT !.docs = Tail(@)]
    /\ UNCHANGED <<now, plans, hist>>

\* a pass in flight ends within the calendar day it started on
RaceTick == Tick /\ (inflight.busy => DayOf(now + 1) = DayOf(now))

NextRace ==
    \/ RaceTick \/ Requests \/ Settlements
    \/ ProcessUpcomingReminders \/ ProcessDueDateReminders
    \/ OverdueLoad \/ OverdueStep

SpecRace == Init /\ [][NextRace]_vars

----------------------------------------------------------------------------
(* generateSchedule called again on a stored application *)

\* the method is called while the application has counted at most tenure payments
Regenerate ==
    /\ app # NoApp
    /\ app.paidInstallments <= app.tenure
    /\ app' = generateSchedule(app, now)
    /\ UNCHANGED <<now, plans, ledger, sink, hist, inflight>>

\* the clock runs over the days in which apply requests arrive
RegenerateTick == Tick /\ DayOf(now + 1) < DayOf(StartTick) + ApplyDays

NextRegenerate == RegenerateTick \/ Requests \/ Regenerate

SpecRegenerate == Init /\ [][NextRegenerate]_vars

----------------------------------------------------------------------------
(* Runs of the job in which a ledger.save() fails.  The passes catch nothing, *)
(* so the exception ends the pass and the job, whose catch logs it.  The job  *)
(* is started at most once a day (index.js does not start the scheduler, the  *)
(* job runs when it is called), and the clock moves on a day at a time.       *)

\* number of days the clock of this specification runs
FailDays == 34

FailEndTick == StartTick + FailDays * TicksPerDay - 1

\* the job, with the save of the upcoming pass (line 149) throwing: the
\* notification was sent, the entry is not stored, the later passes do not run
jobUpcomingSaveFails(db, t) ==
    [db EXCEPT !.sink = processUpcomingReminders(db, t).sink]

\* the overdue pass, with the save of the first entry it selected (line 265)
\* throwing: the notifications were sent and the application updated, the entry
\* is not stored
overdueSaveFails(db, t) ==
    LET today == Midnight(t)
        first == FirstIndex([i \in DOMAIN db.ledger |->
                                OverdueSelected(db.ledger[i], today)])
        r == OverdueEntry(db.ledger[first], today, t)
    IN  [db EXCEPT !.sink = sendAll(@, r.sent),
                   !.app = IF r.defaulted THEN Defaulted(@) ELSE @]

\* the overdue pass reaches the save of an entry
OverdueSaves(db, t) ==
    LET today == Midnight(t)
        first == FirstIndex([i \in DOMAIN db.ledger |->
                                OverdueSelected(db.ledger[i], today)])
    IN  first # 0 /\ ~OverdueEntry(db.ledger[first], today, t).threw

\* the job, with that save of the overdue pass throwing
jobOverdueSaveFails(db, t) ==
    overdueSaveFails(processDueDateReminders(processUpcomingReminders(db, t), t), t)

JobUpcomingSaveFails ==
    /\ SinkHasRoom
    /\ ~hist.ranToday
    /\ processUpcomingReminders(Db, now) # Db
    /\ sink' = jobUpcomingSaveFails(Db, now).sink
    /\ hist' = [hist EXCEPT !.ranToday = TRUE]
    /\ UNCHANGED <<now, plans, app, ledger, inflight>>

JobOverdueSaveFails ==
    /\ SinkHasRoom
    /\ ~hist.ranToday
    /\ OverdueSaves(processDueDateReminders(processUpcomingReminders(Db, now), now), now)
    /\ LET db == jobOverdueSaveFails(Db, now)
       IN  /\ app' = db.app
           /\ ledger' = db.ledger
           /\ sink' = db.sink
    /\ hist' = [hist EXCEPT !.ranToday = TRUE]
    /\ UNCHANGED <<now, plans, inflight>>

\* the next day
FailTick ==
    /\ now + TicksPerDay <= FailEndTick
    /\ now' = now + TicksPerDay
    /\ hist' = NoHistory
    /\ UNCHANGED <<plans, app, ledger, sink, inflight>>

InitFail ==
    /\ now \in { StartTick + t : t \in TimesOfDay }
    /\ plans = LifecyclePlans
    /\ app = NoApp
    /\ ledger = <<>>
    /\ sink = NoNotifications
    /\ hist = NoHistory
    /\ inflight = Idle

\* the requests served meanwhile: the application, its disbursal, and the payment
\* of its first installment
FailRequests ==
    \/ /\ DayOf(now) < DayOf(StartTick) + ApplyDays
       /\ \E kyc \in KycStates, p \in Principals, plan \in plans \cup {NoPlan} :
             Apply(kyc, p, plan)
    \/ \E tx \in TransactionIds, m \in PaymentMethods : PayInstallment(1, tx, m)
    \/ Disburse

NextFail ==
    FailTick \/ FailRequests \/ DailyJob \/ JobUpcomingSaveFails \/ JobOverdueSaveFails

SpecFail == InitFail /\ [][NextFail]_vars

----------------------------------------------------------------------------
(* Runs of the upcoming pass that overlap.  A run awaits between its queries  *)
(* (lines 112-124) and its save (line 149); another run started meanwhile     *)
(* queries the collection as the first one found it.                          *)

\* number of runs of the pass in flight at a time
MaxOverlap == 2

\* what a run holds after its two findOne calls: the application, and the entry
\* of its next due date (index 0: none was found, a new document is built)
UpcomingLoaded(db) ==
    LET found == FindLedger(db.ledger, db.app.nextDueDate)
    IN  [emi |-> db.app, index |-> found,
         doc |-> IF found # 0 THEN db.ledger[found] ELSE NewLedger(db.app)]

\* the queries of a run find an application to remind
UpcomingLoad ==
    /\ SinkHasRoom
    /\ processUpcomingReminders(Db, now) # Db
    /\ IF inflight.busy
       THEN /\ Len(inflight.runs) < MaxOverlap
            /\ inflight' = [inflight EXCEPT !.runs = Append(@, UpcomingLoaded(Db))]
       ELSE inflight' = [busy |-> TRUE, runs |-> <<UpcomingLoaded(Db)>>]
    /\ UNCHANGED <<now, plans, app, ledger, sink, hist>>

\* the rest of run k: the notification is sent and logged, the document saved;
\* the save of a new document inserts it
UpcomingSave(k) ==
    /\ inflight.busy
    /\ k \in DOMAIN inflight.runs
    /\ LET run == inflight.runs[k]
           pushed == [run.doc EXCEPT
                        !.notifications = Append(@, Notified("reminder_3_days"))]
           rest == [j \in 1..(Len(inflight.runs) - 1) |->
                       inflight.runs[IF j < k THEN j ELSE j + 1]]
       IN  /\ sink' = sendNotification(sink, "reminder_3_days")
           /\ ledger' = IF run.index = 0 THEN Append(ledger, pushed)
                        ELSE [ledger EXCEPT ![run.index] = SaveLedger(@, run.doc, pushed)]
           /\ inflight' = IF rest = <<>> THEN Idle ELSE [inflight EXCEPT !.runs = rest]
    /\ UNCHANGED <<now, plans, app, hist>>

NextOverlap ==
    \/ RaceTick \/ Requests
    \/ UpcomingLoad
    \/ \E k \in 1..MaxOverlap : UpcomingSave(k)

SpecOverlap == Init /\ [][NextOverlap]_vars

----------------------------------------------------------------------------
(* The payment calculation alone: one plan of every kind, one application     *)

\* the principals 1..MaxPrincipal, and those of the examples
MaxPrincipal == 12
EmiPrincipals == 1..MaxPrincipal \cup {3000, 4656, 6000}
EmiPlans ==
    [tenure : {1, 2, 3, 6}, interestRate : {0, 12, 25}, processingFee : {0, 99},
     minOrderAmount : {1}, maxOrderAmount : {NULL}]
EmiKyc == [verificationStatus |-> "verified", creditLimit |-> 10000]

InitEmi ==
    /\ now = StartTick
    /\ plans \in { {plan} : plan \in EmiPlans }
    /\ app = NoApp
    /\ ledger = <<>>
    /\ sink = NoNotifications
    /\ hist = NoHistory
    /\ inflight = Idle

ApplyEmi == \E p \in EmiPrincipals, plan \in plans : Apply(EmiKyc, p, plan)

SpecEmi == InitEmi /\ [][ApplyEmi]_vars

----------------------------------------------------------------------------
(* Payment requests that interleave: a request awaits at findOne (line 120)   *)
(* and at save (line 171); between the two it changes the document it loaded  *)

\* number of payment requests in flight at a time
MaxPayments == 2

\* what save() writes of one installment: the paths the request changed
SaveInstallment(stored, loaded, changed) ==
    [stored EXCEPT
        !.status = IF changed.status # loaded.status THEN changed.status ELSE @,
        !.paidDate = IF changed.paidDate # loaded.paidDate THEN changed.paidDate ELSE @,
        !.transactionId =
            IF changed.transactionId # loaded.transactionId
            THEN changed.transactionId ELSE @,
        !.paymentMethod =
            IF changed.paymentMethod # loaded.paymentMethod
            THEN changed.paymentMethod ELSE @]

\* application.save(): the changed paths are written over the stored document,
\* whatever it holds by then
SaveApplication(stored, loaded, changed) ==
    [stored EXCEPT
        !.installments =
            [k \in DOMAIN @ |->
                SaveInstallment(@[k], loaded.installments[k], changed.installments[k])],
        !.paidInstallments =
            IF changed.paidInstallments # loaded.paidInstallments
            THEN changed.paidInstallments ELSE @,
        !.remainingInstallments =
            IF changed.remainingInstallments # loaded.remainingInstallments
            THEN changed.remainingInstallments ELSE @,
        !.nextDueDate =
            IF changed.nextDueDate # loaded.nextDueDate THEN changed.nextDueDate ELSE @,
        !.status = IF changed.status # loaded.status THEN changed.status ELSE @,
        !.completedAt =
            IF changed.completedAt # loaded.completedAt THEN changed.completedAt ELSE @]

\* a request loads the application, passes the checks of lines 125-149 and
\* changes its copy (lines 151-169)
PayLoaded(installmentNumber, transactionId, paymentMethod) ==
    [loaded |-> app,
     changed |-> payInstallment(app, installmentNumber, transactionId, paymentMethod)]

PayLoad(installmentNumber, transactionId, paymentMethod) ==
    /\ PayAccepted(app, installmentNumber)
    /\ IF inflight.busy
       THEN /\ Len(inflight.pays) < MaxPayments
            /\ inflight' = [inflight EXCEPT !.pays =
                   Append(@, PayLoaded(installmentNumber, transactionId, paymentMethod))]
       ELSE inflight' = [busy |-> TRUE,
                         pays |-> <<PayLoaded(installmentNumber, transactionId,
                                              paymentMethod)>>]
    /\ UNCHANGED <<now, plans, app, ledger, sink, hist>>

\* the save of request k reaches the collection
PaySave(k) ==
    /\ inflight.busy
    /\ k \in DOMAIN inflight.pays
    /\ LET pay == inflight.pays[k]
           rest == [j \in 1..(Len(inflight.pays) - 1) |->
                       inflight.pays[IF j < k THEN j ELSE j + 1]]
       IN  /\ app' = SaveApplication(app, pay.loaded, pay.changed)
           /\ inflight' = IF rest = <<>> THEN Idle ELSE [inflight EXCEPT !.pays = rest]
    /\ UNCHANGED <<now, plans, ledger, sink, hist>>

PayRaceApply ==
    /\ DayOf(now) < DayOf(StartTick) + ApplyDays
    /\ \E kyc \in KycStates, p \in Principals, plan \in plans \cup {NoPlan} :
          Apply(kyc, p, plan)

NextPayRace ==
    \/ RaceTick \/ PayRaceApply
    \/ \E n \in InstallmentNumbers, tx \in TransactionIds, m \in PaymentMethods :
          PayLoad(n, tx, m)
    \/ \E k \in 1..MaxPayments : PaySave(k)

SpecPayRace == Init /\ [][NextPayRace]_vars

----------------------------------------------------------------------------
(* The job run once on every day, over the due dates of two installments; the *)
(* application is disbursed on the day it is approved                         *)

\* number of days the clock of this specification runs
MonthDays == 42

MonthEndTick == StartTick + MonthDays * TicksPerDay - 1

\* the next day, once the job of the day has run
MonthTick ==
    /\ hist.ranToday
    /\ now + TicksPerDay <= MonthEndTick
    /\ now' = now + TicksPerDay
    /\ hist' = NoHistory
    /\ UNCHANGED <<plans, app, ledger, sink, inflight>>

MonthRequests ==
    \/ /\ DayOf(now) < DayOf(StartTick) + ApplyDays
       /\ \/ \E kyc \in KycStates, p \in Principals, plan \in plans \cup {NoPlan} :
                Apply(kyc, p, plan)
          \/ Disburse
    \/ \E n \in InstallmentNumbers, tx \in TransactionIds, m \in PaymentMethods :
          PayInstallment(n, tx, m)

NextMonths == MonthTick \/ MonthRequests \/ DailyJob

\* DailyJob is enabled exactly when JobDue holds and it ends JobDue, so weak
\* fairness of DailyJob is that JobDue does not hold forever
JobDue == SinkHasRoom /\ ~hist.ranToday

\* the scheduler fires every day, and the day ends
SpecMonths ==
    InitFail /\ [][NextMonths]_vars /\ WF_vars(MonthTick) /\ []<>~JobDue

----------------------------------------------------------------------------
(* Properties *)

Installment(k) == app.installments[k]
IsPaid(k) == Installment(k).status = "paid"
IsPendingAt(k) == Installment(k).status = "pending"
Closed(l) == l.status \in {"paid", "waived"}
GracePeriodEnd(l) == l.dueDate + l.gracePeriodDays * TicksPerDay

\* C1: once the schedule is generated, paidInstallments + remainingInstallments
\* equals tenure in every state, whatever payment requests were served.
C1_CountersSumToTenure ==
    app # NoApp => app.paidInstallments + app.remainingInstallments = app.tenure

\* every installment was paid, the second one before the first
C1_Witness ==
    /\ app # NoApp
    /\ \A k \in DOMAIN app.installments : IsPaid(k)
    /\ Installment(2).paidDate < Installment(1).paidDate

\* C2: nextDueDate is the due date of the first installment whose status is
\* pending, and null when no installment is pending.
C2_NextDueIsFirstPending ==
    app # NoApp =>
        /\ (\A k \in DOMAIN app.installments : ~IsPendingAt(k)) => app.nextDueDate = NULL
        /\ \A k \in DOMAIN app.installments :
              (IsPendingAt(k) /\ \A j \in 1..(k - 1) : ~IsPendingAt(j))
                  => app.nextDueDate = Installment(k).dueDate

\* the second installment was paid while the first is still pending
C2_Witness ==
    /\ app # NoApp
    /\ IsPaid(2)
    /\ IsPendingAt(1)

\* C3: generateSchedule yields tenure installments numbered 1..tenure, all pending,
\* the k-th due on the 5th of the k-th calendar month after the generation month.
C3_ScheduleMonthly ==
    app # NoApp =>
        /\ Len(app.installments) = app.tenure
        /\ \A k \in DOMAIN app.installments :
              /\ Installment(k).installmentNumber = k
              /\ Installment(k).status = "pending"
              /\ DayOf(Installment(k).dueDate) =
                    MakeDay(getFullYear(app.approvedAt), getMonth(app.approvedAt) + k, 5)

\* the ledger entries of installment k: those with the installment's due date
EntriesOf(k) == { i \in DOMAIN ledger : ledger[i].dueDate = Installment(k).dueDate }

\* the step records a payment of installment k
PaymentRecorded(k) ==
    /\ app # NoApp
    /\ k \in DOMAIN app.installments
    /\ ~IsPaid(k)
    /\ app'.installments[k].status = "paid"

\* C4: a recorded payment closes the open ledger entry of its installment (status
\* paid, paidAmount, paidDate and paymentReference recorded, penaltyAmount kept),
\* and no later run of a batch pass raises the penalty or changes the status of
\* the entry of a paid installment.
C4_PaymentClosesLedger ==
    [][\A k \in InstallmentNumbers :
         /\ PaymentRecorded(k) =>
               \A i \in EntriesOf(k) :
                  ledger[i].status \in OpenStatuses =>
                     /\ ledger'[i].status = "paid"
                     /\ ledger'[i].paidAmount # NULL
                     /\ ledger'[i].paidDate # NULL
                     /\ ledger'[i].paymentReference # ""
                     /\ ledger'[i].penaltyAmount = ledger[i].penaltyAmount
         /\ (Batch /\ app # NoApp /\ k \in DOMAIN app.installments /\ IsPaid(k)) =>
               \A i \in EntriesOf(k) :
                  /\ ledger'[i].status = ledger[i].status
                  /\ ledger'[i].penaltyAmount <= ledger[i].penaltyAmount]_vars

\* now is n days after the due date, to the tick
DaysAfterDue(l, n) == now = l.dueDate + n * TicksPerDay

\* C5: with one run of the job a day and three days of grace, an unsettled entry
\* due at D is in grace_period with no penalty after the run at D + 1 day, overdue
\* with daysOverdue 0 after the run at D + 4 days, and has daysOverdue 1 after the
\* run at D + 5 days.
C5_GraceTimeline ==
    \A i \in DOMAIN ledger :
        (hist.runsNow > 0 /\ ledger[i].status \in OpenStatuses
                          /\ ledger[i].gracePeriodDays = 3) =>
            /\ DaysAfterDue(ledger[i], 1) =>
                  ledger[i].status = "grace_period" /\ ledger[i].penaltyAmount = 0
            /\ DaysAfterDue(ledger[i], 4) =>
                  ledger[i].status = "overdue" /\ ledger[i].daysOverdue = 0
            /\ DaysAfterDue(ledger[i], 5) => ledger[i].daysOverdue = 1

\* p is num / den rounded to the nearest integer, halves upwards
IsRounded(p, num, den) == 2 * den * p <= 2 * num + den /\ 2 * num + den < 2 * den * (p + 1)

OverduePassStep == ProcessOverdueEmis

\* C7 as stated: an overdue pass on a day on which the pass already ran leaves the
\* ledger entries and the sink as they were.
C7_SameDayRerun ==
    [][(OverduePassStep /\ hist.ranToday) => (ledger' = ledger /\ sink' = sink)]_vars

\* C7 amended: in a state in which the overdue pass already ran at this time now,
\* a further run at this now leaves the ledger entries (status, isInGracePeriod,
\* daysOverdue, penaltyAmount, totalPayable, notification log), the application
\* and the sink as they are.
C7_SameNowRerun ==
    hist.runsNow > 0 =>
        LET db == processOverdueEmis(Db, now)
        IN  db.ledger = ledger /\ db.sink = sink /\ db.app = app

\* the pass ran twice at this tick over an overdue entry with a penalty
C7_Witness ==
    /\ hist.runsNow = 2
    /\ \E i \in DOMAIN ledger :
          /\ OverdueSelected(ledger[i], Midnight(now))
          /\ ledger[i].status = "overdue"
          /\ ledger[i].penaltyAmount > 0
          /\ HasNotification(ledger[i], "overdue_grace_ended")

\* the entry as it was before any penalty calculation
Pristine(l) ==
    [l EXCEPT !.daysOverdue = 0, !.penaltyAmount = 0, !.totalPayable = NULL,
              !.isInGracePeriod = TRUE]

PenaltyFields(l) == <<l.daysOverdue, l.penaltyAmount, l.totalPayable>>

\* C8: the penalty does not depend on the runs before: calculating it again at the
\* same now changes nothing, and an overdue entry the pass has just saved holds
\* the values a calculation at now gives on the entry no run has touched.
C8_PathIndependent ==
    /\ \A i \in DOMAIN ledger :
          calculatePenalty(calculatePenalty(ledger[i], now), now).penaltyAmount
              = calculatePenalty(ledger[i], now).penaltyAmount
    /\ \A i \in hist.saved :
          ledger[i].status = "overdue" =>
              /\ PenaltyFields(ledger[i])
                    = PenaltyFields(calculatePenalty(Pristine(ledger[i]), now))
              /\ PenaltyFields(calculatePenalty(ledger[i], now)) = PenaltyFields(ledger[i])

\* an entry two days past its grace that no run visited on the day after its due
\* date
C8_Witness ==
    \E i \in hist.saved :
        /\ ledger[i].status = "overdue"
        /\ ledger[i].daysOverdue = 2
        /\ ~HasNotification(ledger[i], "overdue_1_day")

\* C9: calculatePenalty leaves a paid or waived entry as it is, and so does a run
\* of the overdue pass (status, penaltyAmount, totalPayable, daysOverdue,
\* isInGracePeriod and notification log).
C9_ClosedEntryUntouched ==
    \A i \in DOMAIN ledger :
        Closed(ledger[i]) =>
            /\ calculatePenalty(ledger[i], now) = ledger[i]
            /\ processOverdueEmis(Db, now).ledger[i] = ledger[i]

\* the overdue pass ran at this tick over a paid entry past its grace, and did not
\* save it
C9_Witness ==
    /\ hist.runsNow > 0
    /\ \E i \in DOMAIN ledger :
          /\ ledger[i].status = "paid"
          /\ ledger[i].dueDate < Midnight(now)
          /\ now > GracePeriodEnd(ledger[i])
          /\ i \notin hist.saved

\* C10: once an entry is paid, no write changes its status, penaltyAmount or
\* totalPayable, also not the save of an overdue pass that loaded it before.
C10_PaymentWins ==
    [][\A i \in DOMAIN ledger :
          ledger[i].status = "paid" =>
              /\ ledger'[i].status = "paid"
              /\ ledger'[i].penaltyAmount = ledger[i].penaltyAmount
              /\ ledger'[i].totalPayable = ledger[i].totalPayable]_vars

\* C12: over repeated runs of the due-today pass, one due_today notification is
\* handed to the sink for the application and its due date, with or without a
\* ledger entry.  (One due date of the application lies within the days the clock
\* runs, so the sink holds at most one due_today record.)
C12_DueTodayOnce == sink["due_today"] <= 1

\* the entries the overdue pass moves into overdue when it runs in this state
IntoOverdue(db) ==
    { i \in DOMAIN ledger : ledger[i].status # "overdue" /\ db.ledger[i].status = "overdue" }

\* the payment requests for installment n
PayRequests == TransactionIds \X PaymentMethods

C16_CompletedWhenNoneRemain ==
    (app # NoApp /\ app.remainingInstallments = 0) => app.status = "completed"

\* C17: an application created as approved is active by the day its first
\* installment is due: it is not found approved on a later day.
C17_ActiveByFirstDue ==
    (app # NoApp /\ app.status = "approved") =>
        DayOf(now) <= DayOf(Installment(1).dueDate)

\* C18: a payment request for a paid installment leaves the application as it is,
\* whatever transaction it names.
C18_PaidInstallmentRejected ==
    app # NoApp =>
        \A n \in DOMAIN app.installments, tx \in TransactionIds \cup {"tx2"},
           m \in PaymentMethods :
            IsPaid(n) => payInstallment(app, n, tx, m) = app

\* installment 1 was paid at an earlier time and is counted once
C18_Witness ==
    /\ app # NoApp
    /\ IsPaid(1)
    /\ Installment(1).paidDate < now
    /\ app.paidInstallments = 1

\* the tenures createEmiPlanSchema allows
ValidTenures == {3, 6, 9, 12, 18, 24}

\* C20: an application exists only for a plan with a tenure of ValidTenures and a
\* principal within the plan's [minOrderAmount, maxOrderAmount].
C20_ApplyValidated ==
    app # NoApp =>
        /\ app.tenure \in ValidTenures
        /\ \E plan \in plans :
              /\ plan.tenure = app.tenure
              /\ plan.minOrderAmount <= app.principalAmount
              /\ plan.maxOrderAmount = NULL \/ app.principalAmount <= plan.maxOrderAmount

\* C19: generateSchedule on an application with a paid installment is rejected:
\* it leaves installments, paidInstallments, remainingInstallments and
\* nextDueDate as they are.
C19_RegenerateRejected ==
    [][(Regenerate /\ \E k \in DOMAIN app.installments : IsPaid(k)) => app' = app]_vars

\* the due dates of the application that lie before t
DueBefore(t) ==
    IF app = NoApp THEN {}
    ELSE { Installment(k).dueDate : k \in { j \in DOMAIN app.installments :
                                              Installment(j).dueDate < t } }

\* C11: also when a run fails after a notification was handed to the sink, no
\* later run hands the sink a notification of the same type for the same
\* application and due date: the sink holds at most one reminder_3_days for
\* every due date at most three days ahead, and at most one overdue_1_day and one
\* overdue_grace_ended for every due date passed.
C11_NoDoubleNotify ==
    /\ sink["reminder_3_days"]
          <= Cardinality(DueBefore(AddDays(Midnight(now), ReminderLeadDays + 1)))
    /\ sink["overdue_1_day"] <= Cardinality(DueBefore(Midnight(now)))
    /\ sink["overdue_grace_ended"] <= Cardinality(DueBefore(Midnight(now)))

\* C14: a failed save in the upcoming pass does not keep the later passes of the
\* run from being processed: after the run, the overdue pass has left nothing
\* to do at this now.
C14_FailureIsolated ==
    [][JobUpcomingSaveFails =>
          processOverdueEmis([app |-> app', ledger |-> ledger', sink |-> sink'],
                             now').ledger = ledger']_vars

\* the number of records of a type in the notification log of an entry
Logged(l, type) ==
    Cardinality({ j \in DOMAIN l.notifications : l.notifications[j].type = type })

\* C13: after any sequence of runs of the upcoming pass, overlapping ones
\* included, the ledger holds at most one entry for a due date of the
\* application, and the entry at most one reminder_3_days record.
C13_OneEntryPerDueDate ==
    /\ \A i, j \in DOMAIN ledger : ledger[i].dueDate = ledger[j].dueDate => i = j
    /\ \A i \in DOMAIN ledger : Logged(ledger[i], "reminder_3_days") <= 1

\* the least integer not below num / den
Ceil(num, den) == (num + den - 1) \div den

AnnuityCeil(P, I, N) ==
    LET grown == BigPow(Big(1200 + I), N)
        parts == BigDivMod(BigMul(Big(P * I), grown),
                           BigMul(Big(1200), BigSub(grown, BigPow(Big(1200), N))))
    IN  BigToInt(parts.q) + (IF parts.r = <<>> THEN 0 ELSE 1)

\* C22: for a plan with interest the monthly payment is the ceiling of the
\* exact annuity value; 6000 over 6 months at 12 % with a fee of 99 gives 1035 a
\* month and 6 * 1035 + 99 in total.
C22_AnnuityEmi ==
    \A plan \in plans :
        (app # NoApp /\ plan.interestRate > 0) =>
            /\ app.monthlyEmi =
                  AnnuityCeil(app.principalAmount, plan.interestRate, plan.tenure)
            /\ (/\ app.principalAmount = 6000
                /\ plan.tenure = 6
                /\ plan.interestRate = 12
                /\ plan.processingFee = 99) =>
                  /\ app.monthlyEmi = 1035
                  /\ app.totalAmount = 6 * 1035 + 99

\* C23: at most one run of the job is executing at any time: a trigger that
\* arrives while a run is in progress starts no second run.
C23_SingleRun == inflight.busy => Len(inflight.runs) <= 1

\* C24: when payment requests for one application interleave at their read and
\* their save, then once they are through paidInstallments is the number of
\* installments with status paid, and paidInstallments + remainingInstallments
\* is the tenure.
C24_PaymentsSerialized ==
    (app # NoApp /\ ~inflight.busy) =>
        /\ app.paidInstallments = Cardinality({ k \in DOMAIN app.installments : IsPaid(k) })
        /\ app.paidInstallments + app.remainingInstallments = app.tenure

\* what the claim of an entry gone overdue comes to at time t
OverdueAt(l, t) ==
    /\ t > GracePeriodEnd(l)
    /\ ~l.isInGracePeriod
    /\ l.missedDate = l.dueDate
    /\ l.penaltyAmount = PenaltyFor(l.originalAmount, l.penaltyRate,
                                    DaysOverdueAt(GracePeriodEnd(l), t))
    /\ l.totalPayable = l.originalAmount + l.penaltyAmount

\* C25: an entry becomes overdue only in a run at a time now past dueDate +
\* gracePeriodDays of the entry; right after that run isInGracePeriod is false,
\* missedDate is the due date, and penaltyAmount and totalPayable are the
\* penalty computed for that now.
C25_OverdueAfterGrace ==
    /\ LET db == processOverdueEmis(Db, now)
       IN  \A i \in IntoOverdue(db) : OverdueAt(db.ledger[i], now)
    /\ \A i \in DOMAIN ledger :
          ledger[i].status = "overdue" =>
             /\ now > GracePeriodEnd(ledger[i])
             /\ ~ledger[i].isInGracePeriod
             /\ ledger[i].missedDate = ledger[i].dueDate
             /\ i \in hist.saved => OverdueAt(ledger[i], now)

C25_Witness ==
    /\ hist.runsNow = 1
    /\ \E i \in hist.saved :
          /\ ledger[i].status = "overdue"
          /\ HasNotification(ledger[i], "overdue_grace_ended")
          /\ ledger[i].daysOverdue = 0
          /\ ledger[i].totalPayable = ledger[i].originalAmount

\* C26: after a run of the overdue pass at a time now with dueDate < now <=
\* dueDate + gracePeriodDays, an unpaid entry has status grace_period and no
\* penalty, also when the pass did not run on the first day after the due date.
\* The entries taken are those a whole day past their due date, as the pass
\* counts the days.
C26_GracePeriodEntered ==
    LET db == processOverdueEmis(Db, now)
    IN  \A i \in DOMAIN ledger :
           (/\ ~db.threw
            /\ ledger[i].status \in OpenStatuses
            /\ ledger[i].dueDate < Midnight(now)
            /\ DaysSinceDue(ledger[i], Midnight(now)) >= 1
            /\ now <= GracePeriodEnd(ledger[i]))
           => /\ db.ledger[i].status = "grace_period"
              /\ db.ledger[i].penaltyAmount = 0

\* C27: once the application is defaulted it stays defaulted, under every
\* payment of an installment and every run of the job.
C27_DefaultedIsTerminal ==
    (app # NoApp /\ app.status = "defaulted") =>
        /\ \A n \in InstallmentNumbers, r \in PayRequests :
              payInstallment(app, n, r[1], r[2]).status = "defaulted"
        /\ runPaymentReminderJob(Db, now).app.status = "defaulted"

\* C28: the installmentNo of every ledger entry is the ordinal of the
\* installment of the application that is due on the entry's dueDate, in
\* whatever order installments were paid before the entry was created.
C28_LedgerOrdinal ==
    app # NoApp =>
        \A i \in DOMAIN ledger :
            \E k \in DOMAIN app.installments :
                /\ Installment(k).dueDate = ledger[i].dueDate
                /\ Installment(k).installmentNumber = ledger[i].installmentNo

\* installment k of a disbursed application is unpaid more than the grace
\* period after its due date
Missed(k) ==
    /\ app # NoApp
    /\ app.status # "approved"
    /\ k \in DOMAIN app.installments
    /\ ~IsPaid(k)
    /\ now > AddDays(Installment(k).dueDate, DefaultGracePeriodDays)

\* the ledger holds an overdue entry with its penalty for installment k
Tracked(k) ==
    /\ app # NoApp
    /\ k \in DOMAIN app.installments
    /\ \E i \in DOMAIN ledger :
          /\ ledger[i].dueDate = Installment(k).dueDate
          /\ ledger[i].status = "overdue"
          /\ ledger[i].totalPayable = ledger[i].originalAmount + ledger[i].penaltyAmount

\* C29: with the job run once a day, every installment that stays unpaid for
\* more than the grace period after its due date eventually has a ledger entry
\* in status overdue with its penalty, the first missed installment and every
\* later one.
C29_MissedEventuallyOverdue ==
    \A k \in 1..2 : Missed(k) ~> (Tracked(k) \/ ~Missed(k))

\* once the application is defaulted or completed no step makes it active
\* again and no step adds a ledger entry, on the last day of the clock as on
\* every other: the installments then untracked stay untracked
NoEntryAfterDefault ==
    [][(app # NoApp /\ app.status \in {"defaulted", "completed"})
          => /\ Len(ledger') <= Len(ledger)
             /\ app'.status \in {"defaulted", "completed"}]_vars

\* C30: after any sequence of batch runs, every stored ledger entry in status
\* pending, grace_period or overdue has isInGracePeriod false exactly when
\* its status is overdue.
C30_GraceFlagMatchesStatus ==
    \A i \in DOMAIN ledger :
        ledger[i].status \in {"pending", "grace_period", "overdue"}
            => (ledger[i].isInGracePeriod = FALSE <=> ledger[i].status = "overdue")

\* a run has stored an entry out of its grace period: overdue, a day or more
\* of penalty on it
C30_Witness ==
    /\ hist.runsNow >= 1
    /\ \E i \in hist.saved :
          /\ ledger[i].status = "overdue"
          /\ ledger[i].isInGracePeriod = FALSE
          /\ ledger[i].daysOverdue >= 1

====
